---- MODULE Spec2Model ----
(***************************************************************************)
(* A model of sphinx_asdf/md2rst.py: the RstRenderer methods, the math     *)
(* extensions of the block and inline lexers, and md2rst itself.           *)
(*                                                                         *)
(* A Python str is a sequence of one-character strings, so that len,       *)
(* startswith, slicing, replace and the regular expressions are computed   *)
(* character by character as the code computes them.                       *)
(***************************************************************************)
EXTENDS Naturals, Sequences, FiniteSets

VARIABLES
    blockBaseline,      \* mistune.BlockLexer.default_rules (class attribute)
    inlineBaseline,     \* mistune.InlineLexer.default_rules (class attribute)
    inlineClassRules,   \* InlineLexer.default_rules (class attribute, line 41)
    directiveDefaults,  \* the default argument objects of RstRenderer._directive
    call,               \* the last operation called, with its arguments
    result,             \* what that call returned or raised
    lexed,              \* the lexers md2rst built and the tokens they produced
    calls               \* how many md2rst calls the process has made

vars == <<blockBaseline, inlineBaseline, inlineClassRules, directiveDefaults,
          call, result, lexed, calls>>

(***************************************************************************)
(* Bounds of the model.                                                    *)
(***************************************************************************)
MaxLen == 5        \* longest markdown document given to md2rst
MaxText == 2       \* longest header text and link label
MaxItems == 2      \* most items in a rendered list body
MaxCalls == 2      \* most md2rst calls of one process

(***************************************************************************)
(* Python str and list primitives.                                         *)
(***************************************************************************)
NL == "\n"
BQ == "<backtick>"    \* the backquote character, which a TLA+ string cannot hold
SP == " "
DOLLAR == "$"

\* all sequences over alphabet of length at most n
Strings(alphabet, n) == UNION {[1..k -> alphabet] : k \in 0..n}

\* str.startswith
StartsWith(s, p) == Len(s) >= Len(p) /\ SubSeq(s, 1, Len(p)) = p

\* s[n:]
Drop(s, n) == SubSeq(s, n + 1, Len(s))

\* c * n
Repeat(c, n) == [i \in 1..n |-> c]

\* index of the first occurrence of character c in s, 0 when there is none
IndexOf(s, c) ==
    IF \E i \in 1..Len(s) : s[i] = c
    THEN CHOOSE i \in 1..Len(s) : s[i] = c /\ \A j \in 1..(i - 1) : s[j] # c
    ELSE 0

\* str.split("\n")
RECURSIVE SplitNL(_)
SplitNL(s) ==
    LET i == IndexOf(s, NL)
    IN IF i = 0 THEN <<s>>
       ELSE <<SubSeq(s, 1, i - 1)>> \o SplitNL(Drop(s, i))

\* sep.join(parts)
RECURSIVE Join(_, _)
Join(parts, sep) ==
    IF parts = <<>> THEN <<>>
    ELSE IF Len(parts) = 1 THEN parts[1]
    ELSE parts[1] \o sep \o Join(Tail(parts), sep)

\* str.rstrip("\n")
RECURSIVE RStripNL(_)
RStripNL(s) ==
    IF s # <<>> /\ s[Len(s)] = NL THEN RStripNL(SubSeq(s, 1, Len(s) - 1)) ELSE s

\* number of leading spaces of a line
RECURSIVE LeadingSpaces(_)
LeadingSpaces(line) ==
    IF line # <<>> /\ line[1] = SP THEN 1 + LeadingSpaces(Tail(line)) ELSE 0

\* a line of spaces only (the empty line included)
IsBlank(line) == \A i \in 1..Len(line) : line[i] = SP

Min(S) == CHOOSE x \in S : \A y \in S : x <= y

\* textwrap.dedent: lines of whitespace only become empty, then the margin
\* common to the other lines is removed from them
dedent(content) ==
    LET lines == SplitNL(content)
        norm == [i \in 1..Len(lines) |-> IF IsBlank(lines[i]) THEN <<>> ELSE lines[i]]
        inked == {i \in 1..Len(norm) : norm[i] # <<>>}
        margin == IF inked = {} THEN 0 ELSE Min({LeadingSpaces(norm[i]) : i \in inked})
    IN Join([i \in 1..Len(norm) |->
                IF norm[i] = <<>> THEN <<>> ELSE Drop(norm[i], margin)], <<NL>>)

(***************************************************************************)
(* Outcomes of a call.                                                     *)
(***************************************************************************)
Ok(out) == [kind |-> "ok", out |-> out, exc |-> "", args |-> <<>>]
Raise(exc, args) == [kind |-> "raise", out |-> <<>>, exc |-> exc, args |-> args]
NoResult == [kind |-> "none", out |-> <<>>, exc |-> "", args |-> <<>>]

(***************************************************************************)
(* RstRenderer.                                                            *)
(***************************************************************************)
DefaultLevels == <<"*", "=", "-", "^", "\"", "+", ":", "~">>

Indent3 == <<" ", " ", " ">>

_indented(content) ==
    LET lines == SplitNL(dedent(content))
    IN Join([i \in 1..Len(lines) |-> Indent3 \o lines[i]], <<NL>>)

RECURSIVE AttributeLines(_)
AttributeLines(attributes) ==
    IF attributes = <<>> THEN <<>>
    ELSE <<" ", " ", " ", " ", ":">> \o attributes[1][1] \o <<":", " ">>
         \o attributes[1][2] \o <<NL>> \o AttributeLines(Tail(attributes))

\* attributes is the dict as the sequence of its (key, value) pairs
_directive(name, content, args, attributes) ==
    <<".", ".", " ">> \o name \o <<":", ":", " ">> \o Join(args, <<",", " ">>) \o <<NL>>
    \o AttributeLines(attributes)
    \o <<NL>>
    \o _indented(content)
    \o <<NL, NL>>

block_code(code, lang) ==
    _directive(<<"c", "o", "d", "e", "-", "b", "l", "o", "c", "k">>, RStripNL(code),
               IF lang # <<>> THEN <<lang>> ELSE <<<<"n", "o", "n", "e">>>>, <<>>)

HeaderLong(text, level, levels) ==
    IF level < Len(levels)
    THEN Ok(text \o <<NL>> \o Repeat(levels[level + 1], Len(text) + 1) \o <<NL, NL>>)
    ELSE Raise("IndexError", <<"string index out of range">>)

\* levels[level] indexes from 0: level >= len(levels) raises IndexError
header(text, level, levels) ==
    IF level < Len(levels)
    THEN Ok(text \o <<NL>> \o Repeat(levels[level + 1], Len(text)) \o <<NL, NL>>)
    ELSE Raise("IndexError", <<"string index out of range">>)

paragraph(text) == text \o <<NL, NL>>

text_(text) == text

linebreak == <<>>

newline == <<>>

math(text) == <<":", "m", "a", "t", "h", ":", BQ>> \o text \o <<BQ>>

REF == <<"r", "e", "f", ":">>
JS == <<"j", "a", "v", "a", "s", "c", "r", "i", "p", "t", ":">>
MAILTO == <<"m", "a", "i", "l", "t", "o", ":">>

\* :ref:BQ text <target> BQ
RefRole(text, target) ==
    <<":", "r", "e", "f", ":", BQ>> \o text \o <<" ", "<">> \o target \o <<">", BQ>>

\* BQ text <target> BQ __
Hyperlink(text, target) ==
    <<BQ>> \o text \o <<" ", "<">> \o target \o <<">", BQ, "_", "_">>

AutolinkRefFirst(link, is_email) ==
    IF StartsWith(link, REF) THEN RefRole(link, Drop(link, 4))
    ELSE Hyperlink(link, IF is_email THEN MAILTO \o link ELSE link)

autolink(link, is_email) ==
    LET text == link
        target == IF is_email THEN MAILTO \o link ELSE link
    IN IF StartsWith(target, REF) THEN RefRole(text, Drop(target, 4))
       ELSE Hyperlink(text, target)

LinkNoDefang(link, title, text) ==
    IF StartsWith(link, REF) THEN RefRole(text, Drop(link, 4))
    ELSE Hyperlink(text, link)

link(link_, title, text) ==
    LET target == IF StartsWith(link_, JS) THEN <<>> ELSE link_
    IN IF StartsWith(target, REF) THEN RefRole(text, Drop(target, 4))
       ELSE Hyperlink(text, target)

image(src, title, text) ==
    LET target == IF StartsWith(src, JS) THEN <<>> ELSE src
        options == IF text # <<>> THEN <<<<<<"a", "l", "t">>, text>>>> ELSE <<>>
    IN _directive(<<"i", "m", "a", "g", "e">>, <<>>, <<target>>, options)

\* table, table_row, table_cell, footnote_ref, footnote_item, footnotes
Unsupported == {"table", "table_row", "table_cell",
                "footnote_ref", "footnote_item", "footnotes"}

unsupported(kind) == Raise("NotImplementedError", <<>>)


\* default width of textwrap.fill
WrapWidth == 70

\* str.replace(" " for each whitespace character), as textwrap does first
Unspace(text) == [i \in 1..Len(text) |-> IF text[i] = NL THEN SP ELSE text[i]]

\* str.rstrip(" ")
RECURSIVE RStripSP(_)
RStripSP(s) ==
    IF s # <<>> /\ s[Len(s)] = SP THEN RStripSP(SubSeq(s, 1, Len(s) - 1)) ELSE s

\* textwrap.fill(text, initial_indent="-  ", subsequent_indent="   ") of a text
\* that fits on one line (3 + len(text) <= WrapWidth): whitespace becomes
\* spaces, the trailing whitespace is dropped, and a text of whitespace only
\* gives no line at all
fill(text) ==
    LET flat == RStripSP(Unspace(text))
    IN IF flat = <<>> THEN <<>> ELSE <<"-", " ", " ">> \o flat

list_item(text) == fill(text) \o <<NL, NL>>

\* str.replace(old, new): the occurrences of old, left to right, not overlapping
RECURSIVE Replace(_, _, _)
Replace(s, old, new) ==
    IF Len(s) < Len(old) THEN s
    ELSE IF StartsWith(s, old) THEN new \o Replace(Drop(s, Len(old)), old, new)
    ELSE <<s[1]>> \o Replace(Tail(s), old, new)

ListNoNewline(body, ordered) ==
    IF ordered THEN Drop(Replace(<<NL>> \o body, <<NL, "-", " ">>, <<NL, "#", ".">>), 1)
    ELSE body

list(body, ordered) ==
    IF ordered THEN Replace(<<NL>> \o body, <<NL, "-", " ">>, <<NL, "#", ".">>)
    ELSE body

block_math(text, defaults) ==
    _directive(<<"m", "a", "t", "h">>, text, defaults.args, defaults.attributes)

(***************************************************************************)
(* The rules of the lexers.  A rule gives the length of its match at the   *)
(* start of text, 0 when it does not match.  The documents of the model    *)
(* are written with the characters of Alphabet; the baseline rules that    *)
(* need another character (a #, a *, a backslash, ...) to match are the    *)
(* rules that never match here.                                            *)
(***************************************************************************)
Alphabet == {DOLLAR, "x", SP, NL}

\* number of characters c at the start of s
RECURSIVE Leading(_, _)
Leading(s, c) == IF s # <<>> /\ s[1] = c THEN 1 + Leading(Tail(s), c) ELSE 0

\* length of the first line of s, its newline not counted
LineLen(s) == IF IndexOf(s, NL) = 0 THEN Len(s) ELSE IndexOf(s, NL) - 1

\* ^\$\$(.*?)\$\$ with re.DOTALL: the first $$ that follows the opening $$
BlockMathClosers(text) ==
    {j \in 3..(Len(text) - 1) : text[j] = DOLLAR /\ text[j + 1] = DOLLAR}

block_math_rule(text) ==
    IF StartsWith(text, <<DOLLAR, DOLLAR>>) /\ BlockMathClosers(text) # {}
    THEN Min(BlockMathClosers(text)) + 1
    ELSE 0

\* ^\n+
newline_rule(text) == Leading(text, NL)

\* ^( {4}[^\n]+\n*)+
RECURSIVE block_code_rule(_)
block_code_rule(text) ==
    IF StartsWith(text, <<SP, SP, SP, SP>>) /\ Len(text) >= 5 /\ text[5] # NL
    THEN LET line == LineLen(text)
             n == line + Leading(Drop(text, line), NL)
         IN n + block_code_rule(Drop(text, n))
    ELSE 0

\* ((?:[^\n]+\n?)+), the first group of the paragraph rule: the lines up to the
\* first empty one (no construct that ends a paragraph early can be written
\* with Alphabet)
RECURSIVE ParagraphLines(_)
ParagraphLines(text) ==
    IF text # <<>> /\ text[1] # NL
    THEN LET line == LineLen(text)
             n == IF line < Len(text) THEN line + 1 ELSE line
         IN n + ParagraphLines(Drop(text, n))
    ELSE 0

\* ^((?:[^\n]+\n?)+)\n*
paragraph_rule(text) ==
    LET n == ParagraphLines(text)
    IN IF n = 0 THEN 0 ELSE n + Leading(Drop(text, n), NL)

\* ^[^\n]+
block_text_rule(text) == LineLen(text)

BlockRule(key, text) ==
    CASE key = "block_math" -> block_math_rule(text)
      [] key = "newline" -> newline_rule(text)
      [] key = "block_code" -> block_code_rule(text)
      [] key = "paragraph" -> paragraph_rule(text)
      [] key = "text" -> block_text_rule(text)
      [] OTHER -> 0

\* ^\$(.+?)\$ : the first $ that follows the opening $ and at least one
\* character, none of them a newline
MathDotAll(text) ==
    LET closers == {j \in 3..Len(text) : text[j] = DOLLAR}
    IN IF text # <<>> /\ text[1] = DOLLAR /\ closers # {} THEN Min(closers) ELSE 0

math_rule(text) ==
    LET closers == {j \in 3..Len(text) :
                        /\ text[j] = DOLLAR
                        /\ \A i \in 2..(j - 1) : text[i] # NL}
    IN IF text # <<>> /\ text[1] = DOLLAR /\ closers # {} THEN Min(closers) ELSE 0

\* $ of a pattern compiled without re.MULTILINE, at offset n of text: the end,
\* or just before a newline that ends the text
AtEnd(text, n) == n = Len(text) \/ (n = Len(text) - 1 /\ text[Len(text)] = NL)

\* \s*$ at the start of text
BlankToEnd(text) == \A i \in 1..Len(text) : text[i] \in {SP, NL}

\* ^ {2,}\n(?!\s*$)
linebreak_rule(text) ==
    LET n == Leading(text, SP)
    IN IF n >= 2 /\ Len(text) > n /\ text[n + 1] = NL /\ ~BlankToEnd(Drop(text, n + 1))
       THEN n + 1 ELSE 0

\*  {2,}\n at offset n of text
HardBreakAt(text, n) ==
    LET rest == Drop(text, n)
        k == Leading(rest, SP)
    IN k >= 2 /\ Len(rest) > k /\ rest[k + 1] = NL

\* the stop set of the text rule as enable_math compiles it, $ included
TextStop(text, n) ==
    \/ (n < Len(text) /\ text[n + 1] = DOLLAR)
    \/ HardBreakAt(text, n)
    \/ AtEnd(text, n)

\* ^[\s\S]+?(?=[\\<!\[_*`~$]|https?://| {2,}\n|$)
inline_text_rule(text) ==
    IF text = <<>> THEN 0
    ELSE Min({n \in 1..Len(text) : TextStop(text, n)})

InlineRule(key, text) ==
    CASE key = "math" -> math_rule(text)
      [] key = "linebreak" -> linebreak_rule(text)
      [] key = "text" -> inline_text_rule(text)
      [] OTHER -> 0

(***************************************************************************)
(* The lexers.  A token keeps where it was matched (at, len) in the text   *)
(* its lexer was given.                                                    *)
(***************************************************************************)
\* the first rule of rules, in their order, that matches text; 0 when none does
FirstBlock(rules, text) ==
    LET hits == {k \in 1..Len(rules) : BlockRule(rules[k], text) > 0}
    IN IF hits = {} THEN 0 ELSE Min(hits)

FirstInline(rules, text) ==
    LET hits == {k \in 1..Len(rules) : InlineRule(rules[k], text) > 0}
    IN IF hits = {} THEN 0 ELSE Min(hits)

\* re.sub("^ {4}", "", code) with re.MULTILINE
CodeText(matched) ==
    LET lines == SplitNL(matched)
    IN Join([i \in 1..Len(lines) |->
                IF StartsWith(lines[i], <<SP, SP, SP, SP>>) THEN Drop(lines[i], 4)
                ELSE lines[i]], <<NL>>)

\* parse_<key>: the tokens the rule appends for its match
BlockTokens(key, matched, at) ==
    LET tok(type, text) == [type |-> type, text |-> text, at |-> at, len |-> Len(matched)]
    IN CASE key = "block_math" -> <<tok("block_math", SubSeq(matched, 3, Len(matched) - 2))>>
         [] key = "newline" -> IF Len(matched) > 1 THEN <<tok("newline", <<>>)>> ELSE <<>>
         [] key = "block_code" -> <<tok("code", CodeText(matched))>>
         [] key = "paragraph" ->
                <<tok("paragraph", RStripNL(SubSeq(matched, 1, ParagraphLines(matched))))>>
         [] OTHER -> <<tok("text", matched)>>

\* the loop of BlockLexer.parse over the text left at offset at
RECURSIVE BlockLoop(_, _, _)
BlockLoop(text, rules, at) ==
    IF text = <<>> THEN <<>>
    ELSE LET k == FirstBlock(rules, text)
         IN IF k = 0
            THEN <<[type |-> "RuntimeError", text |-> text, at |-> at, len |-> 0]>>
            ELSE LET n == BlockRule(rules[k], text)
                 IN BlockTokens(rules[k], SubSeq(text, 1, n), at)
                    \o BlockLoop(Drop(text, n), rules, at + n)

BlockParse(text, rules) == BlockLoop(RStripNL(text), rules, 1)

\* output_<key> of the inline lexer: the renderer's fragment for the match
\* (text is the group the renderer is given)
InlineFragment(key, text) ==
    CASE key = "math" -> math(text)
      [] key = "linebreak" -> linebreak
      [] OTHER -> text_(text)

InlineToken(key, matched, at) ==
    LET text == IF key = "math" THEN SubSeq(matched, 2, Len(matched) - 1) ELSE matched
    IN [type |-> key, at |-> at, len |-> Len(matched), text |-> text,
        out |-> InlineFragment(key, text)]

\* the loop of InlineLexer.output over the text left at offset at
RECURSIVE InlineLoop(_, _, _)
InlineLoop(text, rules, at) ==
    IF text = <<>> THEN <<>>
    ELSE LET k == FirstInline(rules, text)
         IN IF k = 0
            THEN <<[type |-> "RuntimeError", text |-> text, at |-> at, len |-> 0,
                    out |-> <<>>]>>
            ELSE LET n == InlineRule(rules[k], text)
                 IN <<InlineToken(rules[k], SubSeq(text, 1, n), at)>>
                    \o InlineLoop(Drop(text, n), rules, at + n)

InlineParse(text, rules) == InlineLoop(RStripNL(text), rules, 1)

\* output += out, over the matches in their order
RECURSIVE InlineOutput(_)
InlineOutput(toks) ==
    IF toks = <<>> THEN <<>> ELSE toks[1].out \o InlineOutput(Tail(toks))

(***************************************************************************)
(* Markdown (the driver) and md2rst.                                       *)
(***************************************************************************)
\* mistune.preprocessing: a line of spaces only becomes empty (Alphabet has
\* no tab and no carriage return)
preprocessing(text) ==
    LET lines == SplitNL(text)
    IN Join([i \in 1..Len(lines) |-> IF IsBlank(lines[i]) THEN <<>> ELSE lines[i]],
            <<NL>>)

\* number of "text" tokens at the start of toks
RECURSIVE TextRun(_)
TextRun(toks) ==
    IF toks # <<>> /\ toks[1].type = "text" THEN 1 + TextRun(Tail(toks)) ELSE 0

\* output_<type> of Markdown, the token's inline tokens given
BlockFragment(tok, inl, defaults) ==
    CASE tok.type = "block_math" -> block_math(tok.text, defaults)
      [] tok.type = "code" -> block_code(tok.text, <<>>)
      [] tok.type = "newline" -> newline
      [] OTHER -> paragraph(InlineOutput(inl))

\* the text the inline lexer is given for the block token at toks[1]: tok_text
\* joins a run of "text" tokens with newlines
InlineSource(toks) ==
    IF toks[1].type = "text"
    THEN Join([i \in 1..TextRun(toks) |-> toks[i].text], <<NL>>)
    ELSE IF toks[1].type = "paragraph" THEN toks[1].text
    ELSE <<>>

\* the loop of Markdown.output: each block token with the inline tokens of
\* its text and the fragment rendered for it
RECURSIVE Lexed(_, _, _)
Lexed(toks, inlineRules, defaults) ==
    IF toks = <<>> THEN <<>>
    ELSE LET n == IF toks[1].type = "text" THEN TextRun(toks) ELSE 1
             inl == InlineParse(InlineSource(toks), inlineRules)
         IN <<[block |-> toks[1], inl |-> inl,
               out |-> BlockFragment(toks[1], inl, defaults)]>>
            \o Lexed(SubSeq(toks, n + 1, Len(toks)), inlineRules, defaults)

\* out += self.tok(), over the block tokens in their order
RECURSIVE Rendered(_)
Rendered(pairs) ==
    IF pairs = <<>> THEN <<>> ELSE pairs[1].out \o Rendered(Tail(pairs))

Failed(pairs) ==
    \E i \in 1..Len(pairs) :
        \/ pairs[i].block.type = "RuntimeError"
        \/ \E j \in 1..Len(pairs[i].inl) : pairs[i].inl[j].type = "RuntimeError"

BlockEnableMathInPlace(baseline) ==
    [rules |-> <<"block_math">> \o baseline, baseline |-> <<"block_math">> \o baseline]

BlockEnableMathLast(baseline) ==
    [rules |-> baseline \o <<"block_math">>, baseline |-> baseline]

\* BlockLexer.enable_math: the rule list of the instance, and the baseline list
\* as the call leaves it
BlockEnableMath(baseline) ==
    [rules |-> <<"block_math">> \o baseline, baseline |-> baseline]

\* InlineLexer.enable_math
InlineEnableMath(baseline) ==
    [rules |-> <<"math">> \o baseline, baseline |-> baseline]

\* Markdown.render under the rule lists of the two lexers
Render(content, blockRules, inlineRules, defaults) ==
    LET source == RStripNL(preprocessing(content))
        pairs == Lexed(BlockParse(source, blockRules), inlineRules, defaults)
    IN [source |-> source, tokens |-> pairs,
        result |-> IF Failed(pairs) THEN Raise("RuntimeError", <<"Infinite loop">>)
                   ELSE Ok(Rendered(pairs))]

(***************************************************************************)
(* The arguments the operations are called with.                           *)
(***************************************************************************)
HeaderTexts == Strings({"T", "i"}, MaxText)
LevelsOptions == {SubSeq(DefaultLevels, 1, n) : n \in 6..Len(DefaultLevels)}
HeaderLevels == 1..6

Schemes == {<<>>, REF, JS, JS \o REF, REF \o JS, <<"x">> \o JS, <<"r", "e", "f">>,
            <<"h", "t", "t", "p", ":">>}
LinkTargets == {s \o r : s \in Schemes, r \in Strings({"a", "@"}, MaxText)}
Labels == Strings({"t", " "}, MaxText)
Titles == {<<>>, <<"t">>}

Documents == Strings(Alphabet, MaxLen)

\* item texts: empty, blank, a word, and texts that hold a dash and a space
\* or a dash after a newline
ItemTexts == {<<>>, <<SP>>, <<"a">>, <<"-">>, <<"-", SP>>, <<SP, "-">>,
              <<"-", SP, "a">>, <<"-", NL>>, <<"a", NL, "-", SP, "a">>}

RECURSIVE RenderItems(_)
RenderItems(items) ==
    IF items = <<>> THEN <<>> ELSE list_item(items[1]) \o RenderItems(Tail(items))

\* the bodies list is given: the fragments of one item or more, end to end
ListBodies == {RenderItems(items) : items \in Strings(ItemTexts, MaxItems) \ {<<>>}}

NoCall == [op |-> "none", text |-> <<>>, target |-> <<>>, title |-> <<>>,
           level |-> 0, levels |-> <<>>, flag |-> FALSE]

NoLex == [blockRules |-> <<>>, inlineRules |-> <<>>, source |-> <<>>, tokens |-> <<>>]

BlockBaseline == <<"newline", "hrule", "block_code", "fences", "heading", "nptable",
                   "lheading", "block_quote", "list_block", "block_html", "def_links",
                   "def_footnotes", "table", "paragraph", "text">>

InlineBaseline == <<"escape", "inline_html", "autolink", "url", "footnote", "link",
                    "reflink", "nolink", "double_emphasis", "emphasis", "code",
                    "linebreak", "strikethrough", "text">>

Init ==
    /\ blockBaseline = BlockBaseline
    /\ inlineBaseline = InlineBaseline
    /\ inlineClassRules = <<"math">> \o InlineBaseline
    /\ directiveDefaults = [args |-> <<>>, attributes |-> <<>>]
    /\ call = NoCall
    /\ result = NoResult
    /\ lexed = NoLex
    /\ calls = 0

shared == <<blockBaseline, inlineBaseline, inlineClassRules, directiveDefaults, calls>>

CallHeader ==
    \E t \in HeaderTexts, l \in HeaderLevels, lv \in LevelsOptions :
        /\ call.op = "none"
        /\ call' = [NoCall EXCEPT !.op = "header", !.text = t, !.level = l, !.levels = lv]
        /\ result' = header(t, l, lv)
        /\ lexed' = NoLex
        /\ UNCHANGED shared

CallListItem ==
    \E t \in ItemTexts :
        /\ Len(t) + 3 <= WrapWidth
        /\ call.op = "none"
        /\ call' = [NoCall EXCEPT !.op = "list_item", !.text = t]
        /\ result' = Ok(list_item(t))
        /\ lexed' = NoLex
        /\ UNCHANGED shared

CallList ==
    \E body \in ListBodies, ordered \in BOOLEAN :
        /\ call.op = "none"
        /\ call' = [NoCall EXCEPT !.op = "list", !.text = body, !.flag = ordered]
        /\ result' = Ok(list(body, ordered))
        /\ lexed' = NoLex
        /\ UNCHANGED shared

CallLink ==
    \E l \in LinkTargets, title \in Titles, t \in Labels :
        /\ call.op = "none"
        /\ call' = [NoCall EXCEPT !.op = "link", !.target = l, !.title = title, !.text = t]
        /\ result' = Ok(link(l, title, t))
        /\ lexed' = NoLex
        /\ UNCHANGED shared

CallAutolink ==
    \E l \in LinkTargets, is_email \in BOOLEAN :
        /\ call.op = "none"
        /\ call' = [NoCall EXCEPT !.op = "autolink", !.target = l, !.flag = is_email]
        /\ result' = Ok(autolink(l, is_email))
        /\ lexed' = NoLex
        /\ UNCHANGED shared

CallImage ==
    \E src \in LinkTargets, title \in Titles, t \in Labels :
        /\ call.op = "none"
        /\ call' = [NoCall EXCEPT !.op = "image", !.target = src, !.title = title, !.text = t]
        /\ result' = Ok(image(src, title, t))
        /\ lexed' = NoLex
        /\ UNCHANGED shared

CallUnsupported ==
    \E kind \in Unsupported :
        /\ call.op = "none"
        /\ call' = [NoCall EXCEPT !.op = kind]
        /\ result' = unsupported(kind)
        /\ lexed' = NoLex
        /\ UNCHANGED shared

\* md2rst(content): a new renderer and two new lexers, then Markdown.render
Md2rst ==
    \E content \in Documents :
        LET block == BlockEnableMath(blockBaseline)
            inline == InlineEnableMath(inlineBaseline)
            done == Render(content, block.rules, inline.rules, directiveDefaults)
        IN /\ call.op = "none"
           /\ calls < MaxCalls
           /\ calls' = calls + 1
           /\ call' = [NoCall EXCEPT !.op = "md2rst", !.text = content]
           /\ result' = done.result
           /\ lexed' = [blockRules |-> block.rules, inlineRules |-> inline.rules,
                        source |-> done.source, tokens |-> done.tokens]
           /\ blockBaseline' = block.baseline
           /\ inlineBaseline' = inline.baseline
           /\ UNCHANGED <<inlineClassRules, directiveDefaults>>

\* the caller takes the result
Return ==
    /\ call.op # "none"
    /\ call' = NoCall
    /\ result' = NoResult
    /\ lexed' = NoLex
    /\ UNCHANGED shared

Next ==
    \/ CallHeader
    \/ CallListItem
    \/ CallList
    \/ CallLink
    \/ CallAutolink
    \/ CallImage
    \/ CallUnsupported
    \/ Return

\* the calls of the renderer's methods
Spec == Init /\ [][Next]_vars

NextMd2rst ==
    \/ Md2rst
    \/ Return

\* the calls of md2rst
SpecMd2rst == Init /\ [][NextMd2rst]_vars

(***************************************************************************)
(* Properties.                                                             *)
(***************************************************************************)
FreshDefaults == [args |-> <<>>, attributes |-> <<>>]

\* C1: with the default levels string, header(t, l) for l in 1..6 returns t, a
\* newline, an underline, and a blank line; the underline is as long as t and
\* holds only the glyph levels[l] (Python's index: the glyph after the first).
C1_HeaderUnderline ==
    (call.op = "header" /\ call.levels = DefaultLevels) =>
        LET t == call.text
            n == Len(t)
            out == result.out
        IN /\ result.kind = "ok"
           /\ Len(out) = 2 * n + 3
           /\ SubSeq(out, 1, n) = t
           /\ out[n + 1] = NL
           /\ \A i \in (n + 2)..(2 * n + 1) : out[i] = DefaultLevels[call.level + 1]
           /\ out[2 * n + 2] = NL
           /\ out[2 * n + 3] = NL

\* header("Ti", 1) has returned "Ti\n==\n\n"
C1_Witness ==
    /\ call.op = "header"
    /\ call.levels = DefaultLevels
    /\ call.text = <<"T", "i">>
    /\ call.level = 1
    /\ result = Ok(<<"T", "i", NL, "=", "=", NL, NL>>)

\* C2: link(link, title, text): a target that begins with javascript: is
\* blanked first; then a target that begins with ref: gives the :ref: role with
\* the prefix stripped, and any other target (a blanked one included) gives the
\* external hyperlink, the label text kept.
C2_LinkBranches ==
    call.op = "link" =>
        /\ result.kind = "ok"
        /\ StartsWith(call.target, REF) =>
               result.out = RefRole(call.text, Drop(call.target, 4))
        /\ StartsWith(call.target, JS) => result.out = Hyperlink(call.text, <<>>)
        /\ (~StartsWith(call.target, REF) /\ ~StartsWith(call.target, JS)) =>
               result.out = Hyperlink(call.text, call.target)

\* link("javascript:ref:a", ..., "t") has returned the hyperlink with no target
C2_Witness ==
    /\ call.op = "link"
    /\ call.target = JS \o REF \o <<"a">>
    /\ call.text = <<"t">>
    /\ result.out = <<BQ, "t", " ", "<", ">", BQ, "_", "_">>

\* C3: a link, image or autolink whose target begins with javascript: is
\* rendered with its destination blanked and its label kept.
C3_ScriptTargetsBlanked ==
    StartsWith(call.target, JS) =>
        /\ call.op = "link" => result.out = Hyperlink(call.text, <<>>)
        /\ call.op = "autolink" => result.out = Hyperlink(call.target, <<>>)
        /\ call.op = "image" =>
               result.out = _directive(<<"i", "m", "a", "g", "e">>, <<>>, <<<<>>>>,
                                       IF call.text # <<>>
                                       THEN <<<<<<"a", "l", "t">>, call.text>>>>
                                       ELSE <<>>)

\* C4: rendering an unsupported construct fails with a condition that names
\* the construct kind, and returns no output.
C4_UnsupportedNamesKind ==
    call.op \in Unsupported =>
        /\ result.kind = "raise"
        /\ result.out = <<>>
        /\ \E i \in 1..Len(result.args) : result.args[i] = call.op

\* C7 as stated: every autolink, email or not, whose link value begins with
\* ref: gives the :ref: role with the prefix stripped and the link as label;
\* every other one gives the external hyperlink to its target.
C7_AutolinkRefAlways ==
    call.op = "autolink" =>
        IF StartsWith(call.target, REF)
        THEN result.out = RefRole(call.target, Drop(call.target, 4))
        ELSE result.out = Hyperlink(call.target,
                                    IF call.flag THEN MAILTO \o call.target
                                    ELSE call.target)

\* C7 as amended: an autolink that is not an email gives the :ref: role when its
\* link begins with ref: and the external hyperlink to the link otherwise; an
\* email autolink always gives the external hyperlink to mailto: + link, also
\* when the link begins with ref:.
C7_AutolinkAmended ==
    call.op = "autolink" =>
        /\ result.kind = "ok"
        /\ (~call.flag /\ StartsWith(call.target, REF)) =>
               result.out = RefRole(call.target, Drop(call.target, 4))
        /\ (~call.flag /\ ~StartsWith(call.target, REF)) =>
               result.out = Hyperlink(call.target, call.target)
        /\ call.flag => result.out = Hyperlink(call.target, MAILTO \o call.target)

\* autolink("ref:a@", is_email=True) has returned a mailto: hyperlink
C7_Witness ==
    /\ call.op = "autolink"
    /\ call.flag
    /\ call.target = REF \o <<"a", "@">>
    /\ result.out = Hyperlink(REF \o <<"a", "@">>, MAILTO \o REF \o <<"a", "@">>)

\* a "- " that starts a line of body, at index i
IsMarker(body, i) ==
    /\ i < Len(body)
    /\ body[i] = "-"
    /\ body[i + 1] = SP
    /\ (i = 1 \/ body[i - 1] = NL)

\* body with each "- " that starts a line rewritten to "#.", nothing else changed
MarkersRewritten(body) ==
    [i \in 1..Len(body) |->
        IF IsMarker(body, i) THEN "#"
        ELSE IF i > 1 /\ IsMarker(body, i - 1) THEN "."
        ELSE body[i]]

\* C9 as stated: list(body, True) is body with each item's leading "- " marker
\* rewritten to "#." and nothing added, removed or changed; list(body, False)
\* is body.
C9_ListOnlyRewritesMarkers ==
    call.op = "list" =>
        result.out = IF call.flag THEN MarkersRewritten(call.text) ELSE call.text

\* C9 as amended: list(body, True) is a newline followed by body with each
\* item's leading "- " marker rewritten to "#."; list(body, False) is body.
C9_ListAmended ==
    call.op = "list" =>
        /\ result.kind = "ok"
        /\ result.out = IF call.flag THEN <<NL>> \o MarkersRewritten(call.text)
                        ELSE call.text

\* list("-  a\n\n-  -\n\n", True) has returned "\n#. a\n\n#. -\n\n"
C9_Witness ==
    /\ call.op = "list"
    /\ call.flag
    /\ call.text = <<"-", " ", " ", "a", NL, NL, "-", " ", " ", "-", NL, NL>>
    /\ result.out = <<NL, "#", ".", " ", "a", NL, NL, "#", ".", " ", "-", NL, NL>>

\* C10: for every levels option of 6 or more characters and every level in
\* 1..6, header renders without failing, with an underline of the glyph
\* levels[level].
C10_SixLevelsSuffice ==
    (call.op = "header" /\ Len(call.levels) >= 6 /\ call.level \in 1..6) =>
        /\ result.kind = "ok"
        /\ \A i \in (Len(call.text) + 2)..(2 * Len(call.text) + 1) :
               result.out[i] = call.levels[call.level + 1]

(***************************************************************************)
(* Properties of md2rst.                                                   *)
(***************************************************************************)
\* the text from index at on
From(text, at) == SubSeq(text, at, Len(text))

\* text opens with $$ and holds a later $$
ClosedBlockMath(text) ==
    /\ StartsWith(text, <<DOLLAR, DOLLAR>>)
    /\ \E j \in 3..(Len(text) - 1) : text[j] = DOLLAR /\ text[j + 1] = DOLLAR

\* what lies between the opening $$ of text and the first $$ after it
BlockMathInterior(text) ==
    LET j == CHOOSE k \in 3..(Len(text) - 1) :
                 /\ text[k] = DOLLAR /\ text[k + 1] = DOLLAR
                 /\ \A m \in 3..(k - 1) : ~(text[m] = DOLLAR /\ text[m + 1] = DOLLAR)
    IN SubSeq(text, 3, j - 1)

\* text opens with $, and a later $ on the same line closes it after at least
\* one character
ClosedMath(text) ==
    /\ text # <<>>
    /\ text[1] = DOLLAR
    /\ \E j \in 3..Len(text) : text[j] = DOLLAR /\ \A i \in 2..(j - 1) : text[i] # NL

MathInterior(text) ==
    LET j == CHOOSE k \in 3..Len(text) :
                 /\ text[k] = DOLLAR
                 /\ \A i \in 2..(k - 1) : text[i] # NL
                 /\ \A m \in 3..(k - 1) : text[m] # DOLLAR
    IN SubSeq(text, 2, j - 1)

MathHead == <<".", ".", " ", "m", "a", "t", "h", ":", ":", " ", NL, NL>>

\* out is the math directive whose body is the given lines, each one indented
\* by 3 spaces
IsMathDirective(out, lines) ==
    /\ Len(out) >= Len(MathHead) + 2
    /\ SubSeq(out, 1, Len(MathHead)) = MathHead
    /\ SubSeq(out, Len(out) - 1, Len(out)) = <<NL, NL>>
    /\ SplitNL(SubSeq(out, Len(MathHead) + 1, Len(out) - 2))
           = [i \in 1..Len(lines) |-> <<SP, SP, SP>> \o lines[i]]

\* the inline tokens of the pair lie end to end over the text given to the
\* inline lexer
Tiles(pair) ==
    LET inl == pair.inl
        text == RStripNL(pair.block.text)
    IN /\ \A k \in 1..Len(inl) :
              inl[k].at = (IF k = 1 THEN 1 ELSE inl[k - 1].at + inl[k - 1].len)
       /\ IF inl = <<>> THEN text = <<>>
          ELSE inl[Len(inl)].at + inl[Len(inl)].len = Len(text) + 1

\* the math tokens of the inline scan positions that open a closed $...$
InlineMathFirst(pair) ==
    \A k \in 1..Len(pair.inl) :
        LET tok == pair.inl[k]
            rest == From(RStripNL(pair.block.text), tok.at)
        IN ClosedMath(rest) =>
               /\ tok.type = "math"
               /\ tok.text = MathInterior(rest)
               /\ tok.out = <<":", "m", "a", "t", "h", ":", BQ>> \o tok.text \o <<BQ>>

\* the fragment of a paragraph is the fragments of its inline tokens, in their
\* order, and a blank line
RECURSIVE Fragments(_)
Fragments(inl) == IF inl = <<>> THEN <<>> ELSE inl[1].out \o Fragments(Tail(inl))

\* the math rules come first; the body of the directive is the interior,
\* dedented or as it is
MathFirst(dedented) ==
    call.op = "md2rst" =>
        \A p \in 1..Len(lexed.tokens) :
            LET pair == lexed.tokens[p]
                tok == pair.block
                rest == From(lexed.source, tok.at)
            IN /\ ClosedBlockMath(rest) =>
                      /\ tok.type = "block_math"
                      /\ tok.text = BlockMathInterior(rest)
                      /\ IsMathDirective(pair.out,
                             SplitNL(IF dedented THEN dedent(tok.text) ELSE tok.text))
               /\ tok.type = "paragraph" =>
                      /\ InlineMathFirst(pair)
                      /\ pair.out = Fragments(pair.inl) \o <<NL, NL>>

UnclosedFallsThrough ==
    call.op = "md2rst" =>
        /\ result.kind = "ok"
        /\ \A p \in 1..Len(lexed.tokens) :
               LET pair == lexed.tokens[p]
                   tok == pair.block
                   rest == From(lexed.source, tok.at)
               IN /\ (StartsWith(rest, <<DOLLAR, DOLLAR>>) /\ ~ClosedBlockMath(rest)) =>
                         tok.type = "paragraph"
                  /\ tok.type = "paragraph" =>
                         /\ Tiles(pair)
                         /\ \A k \in 1..Len(pair.inl) :
                                LET it == pair.inl[k]
                                    irest == From(RStripNL(tok.text), it.at)
                                IN (irest[1] = DOLLAR /\ ~ClosedMath(irest)) =>
                                       /\ it.type = "text"
                                       /\ it.text[1] = DOLLAR
                                       /\ it.out = it.text

Count(rules, key) == Cardinality({k \in 1..Len(rules) : rules[k] = key})

\* C8: after any sequence of md2rst calls the baseline rule lists and the
\* default arguments of _directive are as they were at the start, the rule list
\* of each lexer of a call holds its math rule once and first, and the call's
\* output is the output its input gives in a process that made no call before.
C8_CallsIndependent ==
    /\ blockBaseline = BlockBaseline
    /\ inlineBaseline = InlineBaseline
    /\ inlineClassRules = <<"math">> \o InlineBaseline
    /\ directiveDefaults = FreshDefaults
    /\ call.op = "md2rst" =>
           /\ lexed.blockRules[1] = "block_math"
           /\ Count(lexed.blockRules, "block_math") = 1
           /\ lexed.inlineRules[1] = "math"
           /\ Count(lexed.inlineRules, "math") = 1
           /\ result = Render(call.text, <<"block_math">> \o BlockBaseline,
                              <<"math">> \o InlineBaseline, FreshDefaults).result

\* a second md2rst call of the process has returned
C8_Witness ==
    /\ call.op = "md2rst"
    /\ calls = 2
    /\ result.kind = "ok"
    /\ result.out # <<>>

====
